---- MODULE Spec2Model ----
(***************************************************************************)
(* A model of the btern balanced-ternary toolchain: the core arithmetic    *)
(* and instruction codec (btern_core/src/lib.rs), the assembler's          *)
(* serialisation (basm/src/main.rs) and the emulator's loader and          *)
(* fetch/decode/execute loop (bemu/src/cpu.rs, bemu/src/main.rs).          *)
(*                                                                         *)
(* Representation.  A Trit is one of the integers -1, 0, 1 (the enum's     *)
(* discriminants).  A Word is a sequence of 27 trits and a Tryte one of 9; *)
(* Rust index i is TLA+ index i+1.  Memory is the Vec of MEMORY_TRYTES     *)
(* trytes; the variable memory holds the trytes that have been written     *)
(* and every other tryte reads as the all-Z tryte it was constructed with  *)
(* (operator Mem).  A Rust panic (unreachable!) is the outcome "panic".    *)
(* TLC's integers are 32 bits wide, so every word that is converted to an  *)
(* integer in a run has its trits 20..26 equal to Z.                       *)
(***************************************************************************)
EXTENDS Integers, Sequences, FiniteSets, TLC

VARIABLES
    gpr,            \* Cpu.gpr: registers R0..R26, each a Word
    pc,             \* Cpu.pc: a Word
    memory,         \* Cpu.memory: tryte address -> Tryte, the written trytes
    status,         \* where main is: "fresh", "running", "ok" or a fault
    instruction,    \* run's local: the instruction decoded last
    steps,          \* number of loop iterations run has made
    program_bytes,  \* main's program_bytes: the bytes of test_program.bin
    call,           \* a pending call of a library function and its input
    ret             \* what that call returned

vars == <<gpr, pc, memory, status, instruction, steps, program_bytes, call, ret>>

---------------------------------------------------------------------------
(* Program constants *)

N == -1
Z == 0
P == 1
Trit == {N, Z, P}

WORD_TRITS == 27
trits_per_tryte == 9
MEMORY_TRYTES == 19683
NUM_REGS == 27
LINK_REG == 26

NOP == 0
ADD == 1
ADDI == 2
SUB == 3
SUBI == 4
LDW == 5
STW == 6
JMP == 7
CALL == 8
RET == 9
BRZ == 10
HALT == 63

Opcode == {NOP, ADD, ADDI, SUB, SUBI, LDW, STW, JMP, CALL, RET, BRZ, HALT}

ZeroTrits(size) == [i \in 1..size |-> Z]
ZWord == ZeroTrits(WORD_TRITS)
ZTryte == ZeroTrits(trits_per_tryte)

\* Instruction::default()
DefaultInstruction == [opcode |-> NOP, rd |-> 0, rs1 |-> 0, rs2 |-> 0, imm |-> 0]

---------------------------------------------------------------------------
(* Rust integer arithmetic: / and % truncate toward zero. *)

RustDiv(a, b) == IF a >= 0 THEN a \div b ELSE -((-a) \div b)
RustRem(a, b) == IF a >= 0 THEN a % b ELSE -((-a) % b)

\* `byte as i8`: reinterpret a u8 as two's-complement
AsI8(byte) == IF byte >= 128 THEN byte - 256 ELSE byte
\* `x as u8` of an i64: keep the low 8 bits
AsU8(x) == x % 256
\* `trit.to_i8() as u8`
I8AsU8(v) == IF v < 0 THEN v + 256 ELSE v

---------------------------------------------------------------------------
(* Trit algebra *)

\* Trit::from_i8
from_i8(val) ==
    IF val \in {-1, 0, 1} THEN [ok |-> TRUE, trit |-> val]
                          ELSE [ok |-> FALSE, trit |-> Z]

\* impl Neg for Trit
neg_trit(t) == IF t = N THEN P ELSE IF t = P THEN N ELSE Z

add_trits(a, b, carry_in) ==
    LET sum_val == a + b + carry_in
        carry_out_val == IF sum_val <= -2 THEN -1
                         ELSE IF sum_val <= 1 THEN 0
                         ELSE 1
        sum_trit_val == sum_val - 3 * carry_out_val
    IN  [sum |-> from_i8(sum_trit_val).trit, carry |-> from_i8(carry_out_val).trit]

---------------------------------------------------------------------------
(* Word arithmetic *)

RECURSIVE add_words_loop(_, _, _, _, _)
add_words_loop(a, b, i, carry, result) ==
    IF i > WORD_TRITS THEN result
    ELSE LET s == add_trits(a[i], b[i], carry)
         IN  add_words_loop(a, b, i + 1, s.carry, [result EXCEPT ![i] = s.sum])

\* the sum without the carry chain: each trit added on its own
add_words_carryless(a, b) == [i \in 1..WORD_TRITS |-> add_trits(a[i], b[i], Z).sum]

add_words(a, b) == add_words_loop(a, b, 1, Z, ZWord)

neg_word(word) == [i \in 1..WORD_TRITS |-> neg_trit(word[i])]

\* sum of trit(i) * 3^i, LSB first.  The source accumulates with a running
\* power of three; the same sum is evaluated here from the most significant
\* trit down, so that no intermediate exceeds the value itself.
RECURSIVE trits_to_i64(_)
trits_to_i64(trits) ==
    IF trits = <<>> THEN 0
    ELSE Head(trits) + 3 * trits_to_i64(Tail(trits))

word_to_i64(word) == trits_to_i64(word)

\* i64_to_word: the while loop, from (value, i, word).  `value % 3` is Rust's
\* remainder, which is negative for a negative value; the match has arms for
\* 0, 1 and 2 only and any other remainder reaches unreachable!().
RECURSIVE i64_to_word_loop(_, _, _)
i64_to_word_loop(value, i, word) ==
    IF ~(value # 0 /\ i < WORD_TRITS) THEN [panic |-> FALSE, word |-> word]
    ELSE LET rem == RustRem(value, 3)
         IN  IF rem \notin {0, 1, 2} THEN [panic |-> TRUE, word |-> word]
             ELSE LET trit_val == IF rem = 2 THEN -1 ELSE rem
                  IN  i64_to_word_loop(RustDiv(value - trit_val, 3), i + 1,
                                       [word EXCEPT ![i + 1] = from_i8(trit_val).trit])

i64_to_word(value) == i64_to_word_loop(value, 0, ZWord)

RECURSIVE i64_to_trits_loop(_, _, _, _)
i64_to_trits_loop(value, i, trits, size) ==
    IF ~(value # 0 /\ i < size) THEN [panic |-> FALSE, trits |-> trits]
    ELSE LET rem == RustRem(value, 3)
         IN  IF rem \notin {0, 1, 2} THEN [panic |-> TRUE, trits |-> trits]
             ELSE LET trit_val == IF rem = 2 THEN -1 ELSE rem
                  IN  i64_to_trits_loop(RustDiv(value - trit_val, 3), i + 1,
                                        [trits EXCEPT ![i + 1] = from_i8(trit_val).trit],
                                        size)

i64_to_trits_fixed_size(value, size) == i64_to_trits_loop(value, 0, ZeroTrits(size), size)

---------------------------------------------------------------------------
(* Instruction codec *)

\* Format (LSB to MSB): [Imm: 12 | Rs2: 3 | Rs1: 3 | Rd: 3 | Opcode: 6]
encode_instruction(inst) ==
    LET imm_trits == i64_to_trits_fixed_size(inst.imm, 12)
        rs2_trits == i64_to_trits_fixed_size(inst.rs2, 3)
        rs1_trits == i64_to_trits_fixed_size(inst.rs1, 3)
        rd_trits == i64_to_trits_fixed_size(inst.rd, 3)
        opcode_trits == i64_to_trits_fixed_size(inst.opcode, 6)
    IN  IF imm_trits.panic \/ rs2_trits.panic \/ rs1_trits.panic
           \/ rd_trits.panic \/ opcode_trits.panic
        THEN [panic |-> TRUE, word |-> ZWord]
        ELSE [panic |-> FALSE,
              word |-> imm_trits.trits \o rs2_trits.trits \o rs1_trits.trits
                       \o rd_trits.trits \o opcode_trits.trits]

\* Cpu::decode; err is "none" on Ok
decode(instruction_word) ==
    LET opcode_val == trits_to_i64(SubSeq(instruction_word, 22, 27))
        rd_val == trits_to_i64(SubSeq(instruction_word, 19, 21))
        rs1_val == trits_to_i64(SubSeq(instruction_word, 16, 18))
        rs2_val == trits_to_i64(SubSeq(instruction_word, 13, 15))
        imm_val == trits_to_i64(SubSeq(instruction_word, 1, 12))
    IN  IF rd_val < 0 \/ rd_val > 26 \/ rs1_val < 0 \/ rs1_val > 26
           \/ rs2_val < 0 \/ rs2_val > 26
        THEN [err |-> "InvalidRegister", inst |-> DefaultInstruction]
        ELSE IF AsU8(opcode_val) \notin Opcode
        THEN [err |-> "UnknownOpcode", inst |-> DefaultInstruction]
        ELSE [err |-> "none",
              inst |-> [opcode |-> AsU8(opcode_val), rd |-> rd_val,
                        rs1 |-> rs1_val, rs2 |-> rs2_val, imm |-> imm_val]]

---------------------------------------------------------------------------
(* The emulator: bemu/src/cpu.rs.  A cpu is [gpr, pc, memory]. *)

\* self.memory[a]
Mem(mem, a) == IF a \in DOMAIN mem THEN mem[a] ELSE ZTryte

\* Cpu::new
new == [gpr |-> [r \in 0..(NUM_REGS - 1) |-> ZWord], pc |-> ZWord, memory |-> <<>>]

\* byte_to_trit without the cast to i8
byte_to_trit_uncast(byte) == from_i8(byte)

\* Cpu::byte_to_trit
byte_to_trit(byte) == from_i8(AsI8(byte))

\* load_program's for loop stops at the first byte (0-based index k) whose
\* tryte lies beyond memory or that is no trit; the capacity test comes first.
LoadStops(program_bytes_) ==
    {k \in 0..(Len(program_bytes_) - 1) :
        \/ k \div trits_per_tryte >= MEMORY_TRYTES
        \/ ~byte_to_trit(program_bytes_[k + 1]).ok}

MinOf(S) == CHOOSE x \in S : \A y \in S : x <= y

\* the loop filling each tryte from its last trit down
LoadedMemory_reversed(mem, program_bytes_, n) ==
    LET last == (n + trits_per_tryte - 1) \div trits_per_tryte
        old == DOMAIN mem
    IN  [a \in old \cup 0..(last - 1) |->
            IF a >= last THEN mem[a]
            ELSE [j \in 1..trits_per_tryte |->
                    LET k == a * trits_per_tryte + (trits_per_tryte - j)
                    IN  IF k < n THEN byte_to_trit(program_bytes_[k + 1]).trit
                        ELSE Mem(mem, a)[j]]]

\* memory after the loop has written bytes 0..n-1 (trit k % 9 of tryte k / 9)
LoadedMemory(mem, program_bytes_, n) ==
    LET last == (n + trits_per_tryte - 1) \div trits_per_tryte
        old == DOMAIN mem
    IN  [a \in old \cup 0..(last - 1) |->
            IF a >= last THEN mem[a]
            ELSE [j \in 1..trits_per_tryte |->
                    LET k == a * trits_per_tryte + (j - 1)
                    IN  IF k < n THEN byte_to_trit(program_bytes_[k + 1]).trit
                        ELSE Mem(mem, a)[j]]]

\* Cpu::load_program; err is "none" on Ok
load_program(cpu, program_bytes_) ==
    IF Len(program_bytes_) % trits_per_tryte # 0
    THEN [err |-> "MalformedProgram", cpu |-> cpu]
    ELSE LET stops == LoadStops(program_bytes_)
         IN  IF stops = {}
             THEN [err |-> "none",
                   cpu |-> [cpu EXCEPT !.memory =
                              LoadedMemory(cpu.memory, program_bytes_, Len(program_bytes_))]]
             ELSE LET k == MinOf(stops)
                  IN  [err |-> IF k \div trits_per_tryte >= MEMORY_TRYTES
                               THEN "ProgramTooLarge" ELSE "InvalidTrit",
                       cpu |-> [cpu EXCEPT !.memory =
                                  LoadedMemory(cpu.memory, program_bytes_, k)]]

\* Cpu::fetch; err is TRUE on Err
fetch(cpu) ==
    LET pc_value == word_to_i64(cpu.pc)
    IN  IF pc_value < 0 THEN [err |-> TRUE, word |-> ZWord]
        ELSE IF pc_value + 2 >= MEMORY_TRYTES THEN [err |-> TRUE, word |-> ZWord]
        ELSE [err |-> FALSE,
              word |-> Mem(cpu.memory, pc_value) \o Mem(cpu.memory, pc_value + 1)
                       \o Mem(cpu.memory, pc_value + 2)]

\* Cpu::next_pc: [panic, word]; i64_to_word panics when pc + 3 < 0
next_pc(cpu) == i64_to_word(word_to_i64(cpu.pc) + 3)

\* The op_* operators return [flow, cpu]: flow is "ok", "panic" or the Err.
Done(cpu) == [flow |-> "ok", cpu |-> cpu]
Panicked(cpu) == [flow |-> "panic", cpu |-> cpu]

\* op_add that copies Rs1 to Rd
op_add_first(cpu, rd_idx, rs1_idx, rs2_idx) ==
    IF rd_idx = 0 THEN Done(cpu)
    ELSE Done([cpu EXCEPT !.gpr[rd_idx] = cpu.gpr[rs1_idx]])

op_add(cpu, rd_idx, rs1_idx, rs2_idx) ==
    IF rd_idx = 0 THEN Done(cpu)
    ELSE Done([cpu EXCEPT !.gpr[rd_idx] = add_words(cpu.gpr[rs1_idx], cpu.gpr[rs2_idx])])

\* op_addi without the gate on rd_idx == 0
op_addi_ungated(cpu, rd_idx, rs1_idx, imm) ==
    LET imm_word == i64_to_word(imm)
    IN  IF imm_word.panic THEN Panicked(cpu)
        ELSE Done([cpu EXCEPT !.gpr[rd_idx] = add_words(cpu.gpr[rs1_idx], imm_word.word)])

op_addi(cpu, rd_idx, rs1_idx, imm) ==
    IF rd_idx = 0 THEN Done(cpu)
    ELSE LET imm_word == i64_to_word(imm)
         IN  IF imm_word.panic THEN Panicked(cpu)
             ELSE Done([cpu EXCEPT !.gpr[rd_idx] =
                                      add_words(cpu.gpr[rs1_idx], imm_word.word)])

\* op_sub that negates Rs2 in place before adding
op_sub_negating_rs2(cpu, rd_idx, rs1_idx, rs2_idx) ==
    IF rd_idx = 0 THEN Done(cpu)
    ELSE Done([cpu EXCEPT !.gpr[rs2_idx] = neg_word(cpu.gpr[rs2_idx]),
                          !.gpr[rd_idx] =
                              add_words(cpu.gpr[rs1_idx], neg_word(cpu.gpr[rs2_idx]))])

\* op_sub without the negation of Rs2
op_sub_unnegated(cpu, rd_idx, rs1_idx, rs2_idx) ==
    IF rd_idx = 0 THEN Done(cpu)
    ELSE Done([cpu EXCEPT !.gpr[rd_idx] = add_words(cpu.gpr[rs1_idx], cpu.gpr[rs2_idx])])

op_sub(cpu, rd_idx, rs1_idx, rs2_idx) ==
    IF rd_idx = 0 THEN Done(cpu)
    ELSE Done([cpu EXCEPT !.gpr[rd_idx] =
                             add_words(cpu.gpr[rs1_idx], neg_word(cpu.gpr[rs2_idx]))])

op_subi(cpu, rd_idx, rs1_idx, imm) ==
    IF rd_idx = 0 THEN Done(cpu)
    ELSE LET imm_word == i64_to_word(imm)
         IN  IF imm_word.panic THEN Panicked(cpu)
             ELSE Done([cpu EXCEPT !.gpr[rd_idx] =
                                      add_words(cpu.gpr[rs1_idx], neg_word(imm_word.word))])

\* Cpu::calculate_effective_address; err is TRUE on Err
calculate_effective_address(cpu, rs1_idx, imm) ==
    LET effective_address_value == word_to_i64(cpu.gpr[rs1_idx]) + imm
    IN  IF effective_address_value < 0 THEN [err |-> TRUE, ea |-> 0]
        ELSE IF effective_address_value + 2 >= MEMORY_TRYTES THEN [err |-> TRUE, ea |-> 0]
        ELSE [err |-> FALSE, ea |-> effective_address_value]

\* op_ldw that has advanced the PC when it returns the address fault
op_ldw_advancing(cpu, rd_idx, rs1_idx, offset) ==
    IF rd_idx = 0 THEN Done(cpu)
    ELSE LET a == calculate_effective_address(cpu, rs1_idx, offset)
         IN  IF a.err THEN [flow |-> "AddressOutOfRange",
                            cpu |-> [cpu EXCEPT !.pc = next_pc(cpu).word]]
             ELSE Done([cpu EXCEPT !.gpr[rd_idx] =
                          Mem(cpu.memory, a.ea) \o Mem(cpu.memory, a.ea + 1)
                          \o Mem(cpu.memory, a.ea + 2)])

op_ldw(cpu, rd_idx, rs1_idx, offset) ==
    IF rd_idx = 0 THEN Done(cpu)
    ELSE LET a == calculate_effective_address(cpu, rs1_idx, offset)
         IN  IF a.err THEN [flow |-> "AddressOutOfRange", cpu |-> cpu]
             ELSE Done([cpu EXCEPT !.gpr[rd_idx] =
                          Mem(cpu.memory, a.ea) \o Mem(cpu.memory, a.ea + 1)
                          \o Mem(cpu.memory, a.ea + 2)])

\* the three thirds of data_word stored high third first
StoreWord_reversed(mem, ea, data_word) ==
    [a \in DOMAIN mem \cup {ea, ea + 1, ea + 2} |->
        IF a = ea THEN SubSeq(data_word, 19, 27)
        ELSE IF a = ea + 1 THEN SubSeq(data_word, 10, 18)
        ELSE IF a = ea + 2 THEN SubSeq(data_word, 1, 9)
        ELSE mem[a]]

\* memory with trytes ea, ea+1, ea+2 set to the three thirds of data_word
StoreWord(mem, ea, data_word) ==
    [a \in DOMAIN mem \cup {ea, ea + 1, ea + 2} |->
        IF a = ea THEN SubSeq(data_word, 1, 9)
        ELSE IF a = ea + 1 THEN SubSeq(data_word, 10, 18)
        ELSE IF a = ea + 2 THEN SubSeq(data_word, 19, 27)
        ELSE mem[a]]

op_stw(cpu, rs1_idx, offset, rs2_idx) ==
    LET a == calculate_effective_address(cpu, rs1_idx, offset)
    IN  IF a.err THEN [flow |-> "AddressOutOfRange", cpu |-> cpu]
        ELSE Done([cpu EXCEPT !.memory = StoreWord(cpu.memory, a.ea, cpu.gpr[rs2_idx])])

op_jmp(cpu, offset) ==
    LET target == i64_to_word(word_to_i64(cpu.pc) + offset)
    IN  IF target.panic THEN Panicked(cpu)
        ELSE Done([cpu EXCEPT !.pc = target.word])

\* op_call that keeps the return address in R25
op_call_linking_r25(cpu, offset) ==
    LET return_address == i64_to_word(word_to_i64(cpu.pc) + 3)
    IN  IF return_address.panic THEN Panicked(cpu)
        ELSE op_jmp([cpu EXCEPT !.gpr[25] = return_address.word], offset)

op_call(cpu, offset) ==
    LET return_address == i64_to_word(word_to_i64(cpu.pc) + 3)
    IN  IF return_address.panic THEN Panicked(cpu)
        ELSE op_jmp([cpu EXCEPT !.gpr[LINK_REG] = return_address.word], offset)

op_ret(cpu) == Done([cpu EXCEPT !.pc = cpu.gpr[LINK_REG]])

op_brz(cpu, rs1_idx, offset) ==
    LET is_zero == \A i \in 1..WORD_TRITS : cpu.gpr[rs1_idx][i] = Z
    IN  IF is_zero THEN op_jmp(cpu, offset)
        ELSE LET next == next_pc(cpu)
             IN  IF next.panic THEN Panicked(cpu)
                 ELSE Done([cpu EXCEPT !.pc = next.word])

\* `self.pc = self.next_pc()` after an op that returned r; a panic in
\* next_pc leaves the pc as it was and keeps what the op has written
Advance(r) ==
    IF r.flow # "ok" THEN r
    ELSE LET next == next_pc(r.cpu)
         IN  IF next.panic THEN Panicked(r.cpu)
             ELSE Done([r.cpu EXCEPT !.pc = next.word])

\* impl fmt::Display for Trit
to_string(t) == IF t = N THEN "-" ELSE IF t = Z THEN "0" ELSE "+"

\* Cpu::print_register_state: what HALT prints.  Each register line is
\* R{:02}: {:<27} ({}); val_trits collects the glyphs in the order of
\* gpr[i].iter(), from index 0 up.
print_register_state(cpu) ==
    [header |-> "--- Register State ---",
     lines  |-> [k \in 1..NUM_REGS |->
                    [i |-> k - 1,
                     val_trits |-> [j \in 1..WORD_TRITS |-> to_string(cpu.gpr[k - 1][j])],
                     val_i64 |-> word_to_i64(cpu.gpr[k - 1])]],
     footer |-> "----------------------"]

\* Cpu::execute returns [flow, cpu]: flow is "continue" (Ok(true)),
\* "stop" (Ok(false)), "panic" or the Err
Continue(r) == IF r.flow = "ok" THEN [flow |-> "continue", cpu |-> r.cpu] ELSE r

execute(cpu, inst) ==
    IF inst.opcode = NOP THEN Continue(Advance(Done(cpu)))
    ELSE IF inst.opcode = HALT THEN [flow |-> "stop", cpu |-> cpu]
    ELSE IF inst.opcode = ADD
        THEN Continue(Advance(op_add(cpu, inst.rd, inst.rs1, inst.rs2)))
    ELSE IF inst.opcode = ADDI
        THEN Continue(Advance(op_addi(cpu, inst.rd, inst.rs1, inst.imm)))
    ELSE IF inst.opcode = SUB
        THEN Continue(Advance(op_sub(cpu, inst.rd, inst.rs1, inst.rs2)))
    ELSE IF inst.opcode = SUBI
        THEN Continue(Advance(op_subi(cpu, inst.rd, inst.rs1, inst.imm)))
    ELSE IF inst.opcode = LDW
        THEN Continue(Advance(op_ldw(cpu, inst.rd, inst.rs1, inst.imm)))
    ELSE IF inst.opcode = STW
        THEN Continue(Advance(op_stw(cpu, inst.rs1, inst.imm, inst.rs2)))
    ELSE IF inst.opcode = JMP THEN Continue(op_jmp(cpu, inst.imm))
    ELSE IF inst.opcode = CALL THEN Continue(op_call(cpu, inst.imm))
    ELSE IF inst.opcode = RET THEN Continue(op_ret(cpu))
    ELSE Continue(op_brz(cpu, inst.rs1, inst.imm))

\* One iteration of the loop of Cpu::run: [status, cpu, instruction], with
\* status "running" (loop again), "ok" (run returned Ok), "panic" or the Err.
run_iteration(cpu, inst0) ==
    LET f == fetch(cpu)
    IN  IF f.err THEN [status |-> "PcOutOfRange", cpu |-> cpu, instruction |-> inst0]
        ELSE LET d == decode(f.word)
             IN  IF d.err # "none"
                 THEN [status |-> d.err, cpu |-> cpu, instruction |-> inst0]
                 ELSE LET e == execute(cpu, d.inst)
                      IN  [status |-> IF e.flow = "continue"
                                      THEN (IF d.inst.opcode = NOP THEN "ok" ELSE "running")
                                      ELSE IF e.flow = "stop" THEN "ok"
                                      ELSE e.flow,
                           cpu |-> e.cpu,
                           instruction |-> d.inst]

---------------------------------------------------------------------------
(* The assembler's serialisation: basm/src/main.rs *)

\* one byte per trit, the trit's i8 value cast to u8
word_to_raw_bytes(word) == [i \in 1..WORD_TRITS |-> I8AsU8(word[i])]

Inst(opcode, rd, rs1, rs2, imm) ==
    [opcode |-> opcode, rd |-> rd, rs1 |-> rs1, rs2 |-> rs2, imm |-> imm]

\* the test program of basm's main
program ==
    << Inst(ADDI, 1, 0, 0, 5),
       Inst(ADDI, 2, 0, 0, 10),
       Inst(ADD, 3, 1, 2, 0),
       Inst(HALT, 0, 0, 0, 0) >>

\* the assembly loop of main: each instruction encoded and its bytes appended;
\* a panic of encode_instruction aborts the assembler
RECURSIVE raw_program_data(_)
raw_program_data(insts) ==
    IF insts = <<>> THEN [panic |-> FALSE, bytes |-> <<>>]
    ELSE LET word == encode_instruction(Head(insts))
             rest == raw_program_data(Tail(insts))
         IN  [panic |-> word.panic \/ rest.panic,
              bytes |-> word_to_raw_bytes(word.word) \o rest.bytes]

---------------------------------------------------------------------------
(* Inputs.  Program images are written trit by trit, independently of       *)
(* encode_instruction, so that every 27-trit word can appear in memory.     *)

RECURSIVE Pow3(_)
Pow3(k) == IF k = 0 THEN 1 ELSE 3 * Pow3(k - 1)

\* the k-trit balanced-ternary numeral of n, LSB first
Bal(n, k) ==
    [i \in 1..k |-> (((n + (Pow3(k) - 1) \div 2) \div Pow3(i - 1)) % 3) - 1]

\* the instruction word with the given field values
RawWord(opcode, rd, rs1, rs2, imm) ==
    Bal(imm, 12) \o Bal(rs2, 3) \o Bal(rs1, 3) \o Bal(rd, 3) \o Bal(opcode, 6)

RECURSIVE Flatten(_)
Flatten(seqs) == IF seqs = <<>> THEN <<>> ELSE Head(seqs) \o Flatten(Tail(seqs))

\* the program file holding the given words
Image(words) == Flatten([i \in 1..Len(words) |-> word_to_raw_bytes(words[i])])

MaxProgLen == 2
MaxSteps == 5

InstrPool ==
    { RawWord(NOP, 0, 0, 0, 0),
      RawWord(HALT, 0, 0, 0, 0),
      RawWord(ADD, 2, 1, 1, 0),
      RawWord(ADD, 0, 1, 1, 0),
      RawWord(ADDI, 1, 0, 0, 100),
      RawWord(ADDI, 1, 0, 0, 19681),
      RawWord(ADDI, 0, 0, 0, 42),
      RawWord(ADDI, 2, 0, 0, -4),
      RawWord(ADDI, 13, 0, 0, 100),
      RawWord(SUB, 2, 0, 1, 0),
      RawWord(SUB, 0, 1, 1, 0),
      RawWord(SUBI, 1, 0, 0, 7),
      RawWord(SUBI, 0, 1, 0, 3),
      RawWord(SUBI, 2, 1, 0, -2),
      RawWord(LDW, 2, 1, 0, -1),
      RawWord(LDW, 2, 1, 0, 100),
      RawWord(LDW, 0, 1, 0, -1),
      RawWord(STW, 0, 1, 2, -1),
      RawWord(STW, 0, 1, 1, 100),
      RawWord(JMP, 0, 0, 0, 6),
      RawWord(JMP, 0, 0, 0, -3),
      RawWord(JMP, 0, 0, 0, 19683),
      RawWord(CALL, 0, 0, 0, 6),
      RawWord(CALL, 0, 0, 0, -6),
      RawWord(RET, 0, 0, 0, 0),
      RawWord(BRZ, 0, 1, 0, 6),
      RawWord(BRZ, 0, 1, 0, -3),
      RawWord(11, 0, 0, 0, 0),
      RawWord(ADD, -1, 0, 0, 0) }

Programs == UNION {[1..n -> InstrPool] : n \in 0..MaxProgLen}

\* S2: subtraction with a negative result
ScenarioS2 ==
    << Inst(ADDI, 1, 0, 0, 7),
       Inst(ADDI, 2, 0, 0, 20),
       Inst(SUB, 3, 1, 2, 0),
       Inst(HALT, 0, 0, 0, 0) >>

\* S4: memory round trip
ScenarioS4 ==
    << Inst(ADDI, 1, 0, 0, 100),
       Inst(ADDI, 2, 0, 0, 777),
       Inst(STW, 0, 1, 2, 0),
       Inst(LDW, 3, 1, 0, 0),
       Inst(HALT, 0, 0, 0, 0) >>

\* S5: BRZ taken over the next instruction
ScenarioS5 ==
    << Inst(ADDI, 1, 0, 0, 0),
       Inst(BRZ, 0, 1, 0, 6),
       Inst(ADDI, 2, 0, 0, 99),
       Inst(ADDI, 3, 0, 0, 7),
       Inst(HALT, 0, 0, 0, 0) >>

\* S6: CALL at address 0 to the subroutine at address 9, HALT at address 3,
\* RET at address 12; the word at address 6 is never executed
ScenarioS6 ==
    << Inst(CALL, 0, 0, 0, 9),
       Inst(HALT, 0, 0, 0, 0),
       Inst(NOP, 0, 0, 0, 0),
       Inst(ADDI, 4, 0, 0, 55),
       Inst(RET, 0, 0, 0, 0) >>

\* the program files the assembler writes for the scenarios; no immediate is
\* negative, so encode_instruction returns a word for every instruction
BytesS1 == raw_program_data(program).bytes
BytesS2 == raw_program_data(ScenarioS2).bytes
BytesS4 == raw_program_data(ScenarioS4).bytes
BytesS5 == raw_program_data(ScenarioS5).bytes
BytesS6 == raw_program_data(ScenarioS6).bytes

ScenarioInputs == {BytesS1, BytesS2, BytesS4, BytesS5, BytesS6}

ProgramInputs == {Image(p) : p \in Programs} \cup ScenarioInputs

NoCall == [fn |-> "none", n |-> 0, inst |-> DefaultInstruction, word |-> ZWord,
           word2 |-> ZWord]
NoRet == [stage |-> "none", panic |-> FALSE, err |-> "none", n |-> 0,
          inst |-> DefaultInstruction, word |-> ZWord]

---------------------------------------------------------------------------
(* The emulator's main: new, load_program, run *)

Self == [gpr |-> gpr, pc |-> pc, memory |-> memory]

InitCpu ==
    /\ gpr = new.gpr
    /\ pc = new.pc
    /\ memory = new.memory
    /\ status = "fresh"
    /\ instruction = DefaultInstruction
    /\ steps = 0

Init ==
    /\ InitCpu
    /\ program_bytes \in ProgramInputs
    /\ call = NoCall
    /\ ret = NoRet

\* main: btern_cpu.load_program(&program_bytes); an Err ends the process
LoadProgram ==
    /\ status = "fresh"
    /\ \E r \in {load_program(Self, program_bytes)} :
           /\ status' = IF r.err = "none" THEN "running" ELSE r.err
           /\ gpr' = r.cpu.gpr
           /\ pc' = r.cpu.pc
           /\ memory' = r.cpu.memory
    /\ UNCHANGED <<instruction, steps, program_bytes, call, ret>>

\* one iteration of the while loop of Cpu::run
Step ==
    /\ status = "running"
    /\ steps < MaxSteps
    /\ \E r \in {run_iteration(Self, instruction)} :
           /\ status' = r.status
           /\ gpr' = r.cpu.gpr
           /\ pc' = r.cpu.pc
           /\ memory' = r.cpu.memory
           /\ instruction' = r.instruction
    /\ steps' = steps + 1
    /\ UNCHANGED <<program_bytes, call, ret>>

Next == LoadProgram \/ Step

Spec == Init /\ [][Next]_vars

\* one iteration of the while loop of Cpu::run, with no bound on the number
\* of iterations: the loop runs for as long as `running` is true.  The
\* iteration count is kept modulo MaxSteps + 1.
Iterate ==
    /\ status = "running"
    /\ \E r \in {run_iteration(Self, instruction)} :
           /\ status' = r.status
           /\ gpr' = r.cpu.gpr
           /\ pc' = r.cpu.pc
           /\ memory' = r.cpu.memory
           /\ instruction' = r.instruction
    /\ steps' = (steps + 1) % (MaxSteps + 1)
    /\ UNCHANGED <<program_bytes, call, ret>>

NextRun == LoadProgram \/ Iterate

\* main is one synchronous thread: the load happens, and the loop takes its
\* next iteration whenever there is one.  The second conjunct is
\* WF_vars(Iterate) written out: Iterate is enabled exactly when status is
\* "running" (run_iteration is total) and every iteration changes steps.
RunFairness ==
    /\ WF_vars(LoadProgram)
    /\ (<>[](status = "running") => []<><<Iterate>>_vars)

SpecRun == Init /\ [][NextRun]_vars /\ RunFairness

---------------------------------------------------------------------------
(* The loader on arbitrary byte streams *)

MaxLoadLen == 20

\* a well-formed stream of the given length: the trits P, Z, N in rotation,
\* starting at phase ph
TritBytes(len, ph) ==
    [k \in 1..len |-> IF (k + ph) % 3 = 1 THEN 1 ELSE IF (k + ph) % 3 = 2 THEN 0 ELSE 255]
    \o <<>>

\* the stream s with byte q (1-based) replaced by b
WithByte(s, q, b) == [s EXCEPT ![q] = b] \o <<>>

BadBytes == {2, 5, 128, 254}

Capacity == trits_per_tryte * MEMORY_TRYTES

SmallStreams ==
    {TritBytes(len, ph) : len \in 0..MaxLoadLen, ph \in 0..2}
    \cup UNION {{WithByte(TritBytes(len, 0), q, b) : q \in 1..len, b \in BadBytes} :
                  len \in {9, 18, MaxLoadLen}}

\* a well-formed stream of the given length: each tryte is P Z Z Z P Z Z Z P
FillBytes(len) ==
    [k \in 1..len |-> IF (k - 1) % trits_per_tryte \in {0, 4, 8} THEN 1 ELSE 0] \o <<>>

\* streams that fill memory exactly, or exceed it
LargeStreams ==
    { FillBytes(Capacity),
      FillBytes(Capacity + trits_per_tryte),
      FillBytes(Capacity + 1),
      WithByte(FillBytes(Capacity), Capacity, 5),
      WithByte(FillBytes(Capacity + trits_per_tryte), Capacity + 2, 5),
      WithByte(FillBytes(Capacity + trits_per_tryte), Capacity - 1, 5) }

LoadInputs == SmallStreams \cup LargeStreams

InitLoad ==
    /\ InitCpu
    /\ program_bytes \in LoadInputs
    /\ call = NoCall
    /\ ret = NoRet

SpecLoad == InitLoad /\ [][Next]_vars

---------------------------------------------------------------------------
(* The library functions on their own: conversions and the codec *)

MaxInt == 40
MaxRegIn == 28
IMM_MAX == 265720
OPCODE_FIELD_MAX == 364

IntInputs == (-MaxInt)..MaxInt \cup {IMM_MAX, -IMM_MAX, 581130733, -581130733}

EncodeInputs ==
    [opcode : Opcode, rd : 0..MaxRegIn, rs1 : {0, 13}, rs2 : {0, 14},
     imm : {0, 5, -5, IMM_MAX, IMM_MAX + 1, -(IMM_MAX + 1), 1000000}]

DecodeInputs ==
    {RawWord(op, rd, 0, 0, 0) : op \in (-OPCODE_FIELD_MAX)..OPCODE_FIELD_MAX,
                                rd \in {0, 13, -1}}

\* the 27-trit word of value n, for n of at most 19 trits
WordOf(n) == Bal(n, 19) \o ZeroTrits(WORD_TRITS - 19)

\* 27-trit words: every assignment of N, Z, P to the low trits, and words of
\* large magnitude, of either sign
WordInputs == {WordOf(n) : n \in IntInputs}

MaxLimb == 2

\* the word whose low 14 trits read lo and whose high 13 trits read hi
LimbWord(lo, hi) == Bal(lo, 14) \o Bal(hi, 13)

\* operands of add_words: small and extreme values in both halves of the word
AddInputs ==
    {LimbWord(lo, hi) :
        lo \in (-MaxLimb)..MaxLimb \cup {(Pow3(14) - 1) \div 2, -((Pow3(14) - 1) \div 2)},
        hi \in {-((Pow3(13) - 1) \div 2), -1, 0, 1, (Pow3(13) - 1) \div 2}}

CodecCalls ==
    {[NoCall EXCEPT !.fn = "i64_to_word", !.n = n] : n \in IntInputs}
    \cup {[NoCall EXCEPT !.fn = "word_to_i64", !.word = w] : w \in WordInputs}
    \cup {[NoCall EXCEPT !.fn = "add_words", !.word = a, !.word2 = b] :
              a \in AddInputs, b \in AddInputs}
    \cup {[NoCall EXCEPT !.fn = "encode_instruction", !.inst = i] : i \in EncodeInputs}
    \cup {[NoCall EXCEPT !.fn = "decode", !.word = w] : w \in DecodeInputs}

InitCodec ==
    /\ gpr = new.gpr
    /\ pc = new.pc
    /\ memory = new.memory
    /\ status = "lib"
    /\ instruction = DefaultInstruction
    /\ steps = 0
    /\ program_bytes = <<>>
    /\ call \in CodecCalls
    /\ ret = NoRet

CpuUnchanged == UNCHANGED <<gpr, pc, memory, status, instruction, steps, program_bytes>>

\* i64_to_word(n)
IntToWord ==
    /\ call.fn = "i64_to_word"
    /\ ret.stage = "none"
    /\ \E r \in {i64_to_word(call.n)} :
           ret' = [NoRet EXCEPT !.stage = "word", !.panic = r.panic, !.word = r.word]
    /\ UNCHANGED call
    /\ CpuUnchanged

\* word_to_i64 of the word that i64_to_word returned
WordToInt ==
    /\ call.fn = "i64_to_word"
    /\ ret.stage = "word"
    /\ ~ret.panic
    /\ ret' = [ret EXCEPT !.stage = "int", !.n = word_to_i64(ret.word)]
    /\ UNCHANGED call
    /\ CpuUnchanged

\* word_to_i64(w)
WordRead ==
    /\ call.fn = "word_to_i64"
    /\ ret.stage = "none"
    /\ ret' = [NoRet EXCEPT !.stage = "int", !.n = word_to_i64(call.word)]
    /\ UNCHANGED call
    /\ CpuUnchanged

\* i64_to_word of the integer that word_to_i64 returned
WordRebuild ==
    /\ call.fn = "word_to_i64"
    /\ ret.stage = "int"
    /\ \E r \in {i64_to_word(ret.n)} :
           ret' = [ret EXCEPT !.stage = "word", !.panic = r.panic, !.word = r.word]
    /\ UNCHANGED call
    /\ CpuUnchanged

\* add_words(&a, &b)
AddWords ==
    /\ call.fn = "add_words"
    /\ ret.stage = "none"
    /\ ret' = [NoRet EXCEPT !.stage = "sum", !.word = add_words(call.word, call.word2)]
    /\ UNCHANGED call
    /\ CpuUnchanged

\* the assembler: encode_instruction(&inst)
Encode ==
    /\ call.fn = "encode_instruction"
    /\ ret.stage = "none"
    /\ \E r \in {encode_instruction(call.inst)} :
           ret' = [NoRet EXCEPT !.stage = "encoded", !.panic = r.panic, !.word = r.word]
    /\ UNCHANGED call
    /\ CpuUnchanged

\* the emulator: decode of the word just encoded, or of a given word
Decode ==
    /\ \/ call.fn = "encode_instruction" /\ ret.stage = "encoded" /\ ~ret.panic
       \/ call.fn = "decode" /\ ret.stage = "none"
    /\ \E r \in {decode(IF call.fn = "decode" THEN call.word ELSE ret.word)} :
           ret' = [ret EXCEPT !.stage = "decoded", !.err = r.err, !.inst = r.inst]
    /\ UNCHANGED call
    /\ CpuUnchanged

NextCodec ==
    IntToWord \/ WordToInt \/ WordRead \/ WordRebuild \/ AddWords \/ Encode \/ Decode

SpecCodec == InitCodec /\ [][NextCodec]_vars

---------------------------------------------------------------------------
(* Claims about the emulator's run (Spec) *)

\* C1: in every state reached from a fresh CPU by loading any program and
\* executing any instructions, whatever their rd, R0 holds the all-Z word.
C1_R0AlwaysZero == gpr[0] = ZWord

\* an ADDI R0, R0, 42 has been executed
C1_Witness ==
    /\ steps > 0
    /\ status = "running"
    /\ instruction.opcode = ADDI
    /\ instruction.rd = 0
    /\ instruction.imm = 42

\* C2: NOP only advances the PC and execution continues; run returns Ok only
\* when the instruction executed last is a HALT.
C2_OnlyHaltStops == status = "ok" => instruction.opcode = HALT

\* what the next iteration of run will fetch and decode
Fetched == fetch(Self)
Decoded == decode(Fetched.word)
DecodesTo(ops) ==
    /\ status = "running"
    /\ ~Fetched.err
    /\ Decoded.err = "none"
    /\ Decoded.inst.opcode \in ops

PcOutOfRangeAtFetch ==
    status = "running" /\ (word_to_i64(pc) < 0 \/ word_to_i64(pc) + 2 >= MEMORY_TRYTES)

JumpsBelowZero ==
    /\ \/ DecodesTo({JMP, CALL})
       \/ DecodesTo({BRZ}) /\ gpr[Decoded.inst.rs1] = ZWord
    /\ word_to_i64(pc) + Decoded.inst.imm < 0

\* C4: a fetch with the PC negative or PC+2 >= memory size makes run return
\* PcOutOfRange, and an execution that takes a jump to a negative target
\* ends in that returned fault and in no other way.
C4_PcFaultReturned ==
    [][(status' # "running" /\ (PcOutOfRangeAtFetch \/ JumpsBelowZero))
          => status' = "PcOutOfRange"]_vars

EffectiveAddress == word_to_i64(gpr[Decoded.inst.rs1]) + Decoded.inst.imm

\* C5: an LDW or STW whose effective address is negative or has
\* EA+2 >= memory size faults with AddressOutOfRange, whatever its rd.
C5_AddressFault ==
    [][(DecodesTo({LDW, STW})
        /\ (EffectiveAddress < 0 \/ EffectiveAddress + 2 >= MEMORY_TRYTES))
          => status' = "AddressOutOfRange"]_vars

---------------------------------------------------------------------------
(* Claims about the loader (SpecLoad) *)

LoadFailed == status \in {"MalformedProgram", "InvalidTrit", "ProgramTooLarge"}

NotMultipleOfNine == Len(program_bytes) % 9 # 0
SomeByteNoTrit ==
    \E k \in 1..Len(program_bytes) :
        (IF program_bytes[k] >= 128 THEN program_bytes[k] - 256 ELSE program_bytes[k])
            \notin {-1, 0, 1}
ExceedsMemory == Len(program_bytes) > 9 * MEMORY_TRYTES

\* C8: load_program fails exactly when the byte count is no multiple of 9
\* (MalformedProgram), some byte read as signed 8-bit is no trit (InvalidTrit)
\* or the trits exceed 9 x memory capacity (ProgramTooLarge); every other
\* stream loads.
C8_LoadFailsExactly ==
    status # "fresh" =>
        /\ LoadFailed <=> (NotMultipleOfNine \/ SomeByteNoTrit \/ ExceedsMemory)
        /\ status = "MalformedProgram" => NotMultipleOfNine
        /\ status = "InvalidTrit" => SomeByteNoTrit
        /\ status = "ProgramTooLarge" => ExceedsMemory

\* a stream of one tryte whose third byte is 0xFF, the trit N, has been loaded
C8_Witness ==
    /\ status = "running"
    /\ steps = 0
    /\ Len(program_bytes) = 9
    /\ program_bytes[3] = 255

\* the trit that byte k (1-based) of the program file encodes
TritOfByte(k) == IF program_bytes[k] = 255 THEN N ELSE IF program_bytes[k] = 1 THEN P ELSE Z

\* C9: after a successful load of L bytes on a fresh CPU, trit k mod 9 of
\* tryte k div 9 is the trit of byte k for every k < L, every tryte from
\* L/9 on is all-Z, and the registers and the PC are unchanged.
C9_LoadedImage ==
    (status = "running" /\ steps = 0) =>
        /\ \A a \in 0..(MEMORY_TRYTES - 1) :
              Mem(memory, a) =
                  IF a < Len(program_bytes) \div 9
                  THEN [j \in 1..9 |-> TritOfByte(9 * a + j)]
                  ELSE ZTryte
        /\ gpr = [r \in 0..26 |-> ZWord]
        /\ pc = ZWord

\* two trytes have been loaded
C9_Witness ==
    /\ status = "running"
    /\ steps = 0
    /\ Len(program_bytes) = 18
    /\ program_bytes[1] = 1

---------------------------------------------------------------------------
(* Claims about the conversions and the codec (SpecCodec) *)

ValidFields(inst) ==
    /\ inst.opcode \in {0, 1, 2, 3, 4, 5, 6, 7, 8, 9, 10, 63}
    /\ inst.rd \in 0..26
    /\ inst.rs1 \in 0..26
    /\ inst.rs2 \in 0..26
    /\ inst.imm \in (-265720)..265720

\* C3: for every instruction with valid fields, decoding the word that
\* encode_instruction produces succeeds and yields the same opcode, rd, rs1,
\* rs2 and imm.
C3_DecodeOfEncode ==
    (call.fn = "encode_instruction" /\ ValidFields(call.inst)) =>
        /\ ret.stage = "encoded" => ~ret.panic
        /\ ret.stage = "decoded" => (ret.err = "none" /\ ret.inst = call.inst)

\* the value of the 6-trit opcode field, trits 21..26, of the word to decode
OpcodeField == trits_to_i64(SubSeq(call.word, 22, 27))
RegisterFieldsValid ==
    /\ trits_to_i64(SubSeq(call.word, 19, 21)) \in 0..26
    /\ trits_to_i64(SubSeq(call.word, 16, 18)) \in 0..26
    /\ trits_to_i64(SubSeq(call.word, 13, 15)) \in 0..26

\* C6: a word whose opcode field is none of 0..10 and 63 (and whose register
\* fields are valid) fails to decode, with UnknownOpcode.
C6_ReservedOpcodes ==
    (/\ call.fn = "decode"
     /\ ret.stage = "decoded"
     /\ RegisterFieldsValid
     /\ OpcodeField \notin {0, 1, 2, 3, 4, 5, 6, 7, 8, 9, 10, 63})
        => ret.err = "UnknownOpcode"

\* C7: an instruction encoded with a register index outside [0, 26] is
\* rejected at decode with InvalidRegister.
C7_BadRegisterRejected ==
    (/\ call.fn = "encode_instruction"
     /\ ret.stage = "decoded"
     /\ (call.inst.rd > 26 \/ call.inst.rs1 > 26 \/ call.inst.rs2 > 26))
        => ret.err = "InvalidRegister"

\* C10: word_to_i64(i64_to_word(n)) = n for every n of the 27-trit range,
\* negative or not: the conversion returns a word and the word reads n.
C10_IntRoundTrip ==
    call.fn = "i64_to_word" =>
        /\ ret.stage = "word" => ~ret.panic
        /\ ret.stage = "int" => ret.n = call.n

\* C11: i64_to_word(word_to_i64(w)) = w for every 27-trit word w, words of
\* negative value included: the conversion back returns a word, and it is w.
C11_WordRoundTrip ==
    (call.fn = "word_to_i64" /\ ret.stage = "word") =>
        (~ret.panic /\ ret.word = call.word)

\* the word of value (word_to_i64(a) + word_to_i64(b)) reduced modulo 3^27 into
\* the balanced range, computed on the two halves of the words (low 14 trits,
\* high 13 trits): value = lo + 3^14 * hi
BalancedSum(a, b) ==
    LET half14 == (Pow3(14) - 1) \div 2
        half13 == (Pow3(13) - 1) \div 2
        lo == trits_to_i64(SubSeq(a, 1, 14)) + trits_to_i64(SubSeq(b, 1, 14))
        hi == trits_to_i64(SubSeq(a, 15, 27)) + trits_to_i64(SubSeq(b, 15, 27))
        c  == IF lo > half14 THEN 1 ELSE IF lo < -half14 THEN -1 ELSE 0
        hw == ((hi + c + half13 + Pow3(13)) % Pow3(13)) - half13
    IN  Bal(lo - c * Pow3(14), 14) \o Bal(hw, 13)

\* C12: for all words a and b, add_words(a, b) returns, without an error, the
\* word whose value is word_to_i64(a) + word_to_i64(b) reduced modulo 3^27
\* into the balanced range (the carry out of trit 26 is dropped).
C12_AddWordsWraps ==
    (call.fn = "add_words" /\ ret.stage = "sum") =>
        (~ret.panic /\ ret.word = BalancedSum(call.word, call.word2))

\* the largest word plus one has wrapped around to the smallest word
C12_Witness ==
    /\ call.fn = "add_words"
    /\ ret.stage = "sum"
    /\ call.word = [i \in 1..WORD_TRITS |-> P]
    /\ call.word2 = LimbWord(1, 0)
    /\ ret.word = [i \in 1..WORD_TRITS |-> N]

---------------------------------------------------------------------------
(* Claims about the instructions (Spec) *)

\* the registers after a write of the word w to register rd
WithReg(rd, w) == [gpr EXCEPT ![rd] = w]

\* the instruction that the next iteration of run executes, if it fetches and
\* decodes one
Executing ==
    IF DecodesTo(Opcode) THEN [ok |-> TRUE, inst |-> Decoded.inst]
    ELSE [ok |-> FALSE, inst |-> DefaultInstruction]

\* C13: for every imm of the 12-trit range, negative or not, and rd # 0, the
\* step that executes ADDI leaves Rd = Rs1 + imm, the step that executes SUBI
\* leaves Rd = Rs1 + (-imm), and in both the PC has advanced by 3, nothing
\* else has changed and the run continues.
C13_ImmediateArithmetic ==
    [][(DecodesTo({ADDI, SUBI}) /\ Decoded.inst.rd # 0) =>
          /\ status' = "running"
          /\ gpr' = WithReg(Decoded.inst.rd,
                            BalancedSum(gpr[Decoded.inst.rs1],
                                        WordOf(IF Decoded.inst.opcode = ADDI
                                               THEN Decoded.inst.imm
                                               ELSE -Decoded.inst.imm)))
          /\ word_to_i64(pc') = word_to_i64(pc) + 3
          /\ memory' = memory]_vars

\* the trytes of the loaded program file, every other tryte all-Z
MemoryIsProgramImage ==
    \A a \in 0..(MEMORY_TRYTES - 1) :
        Mem(memory, a) =
            IF a < Len(program_bytes) \div 9
            THEN [j \in 1..9 |-> TritOfByte(9 * a + j)]
            ELSE ZTryte

\* C14: the program ADDI R1,R0,5; ADDI R2,R0,10; ADD R3,R1,R2; HALT, encoded
\* by encode_instruction and written one byte per trit, is 4 x 27 bytes; loaded
\* and run on a fresh CPU it never faults, and it stops at the HALT, its
\* fourth instruction, with R1 = 5, R2 = 10, R3 = 15, every other register 0,
\* PC = 9 and memory as loaded.
C14_ScenarioS1 ==
    program_bytes = BytesS1 =>
        /\ Len(program_bytes) = 4 * 27
        /\ status \in {"fresh", "running", "ok"}
        /\ status = "ok" =>
              /\ steps = 4
              /\ instruction.opcode = HALT
              /\ gpr = [r \in 0..26 |->
                          IF r = 1 THEN WordOf(5)
                          ELSE IF r = 2 THEN WordOf(10)
                          ELSE IF r = 3 THEN WordOf(15)
                          ELSE ZWord]
              /\ pc = WordOf(9)
              /\ MemoryIsProgramImage

\* the run of that program has stopped
C14_Witness ==
    /\ program_bytes = BytesS1
    /\ status = "ok"
    /\ word_to_i64(gpr[3]) = 15

\* C15: the step that executes a CALL at address A leaves R26 = A + 3 and
\* PC = A + imm and the run continues; the step that executes a RET leaves
\* PC = R26 and the registers as they were; and scenario S6 stops with
\* R4 = 55 and R26 = 3.
C15_CallRet ==
    [][/\ DecodesTo({CALL}) =>
             /\ status' = "running"
             /\ gpr' = WithReg(LINK_REG, WordOf(word_to_i64(pc) + 3))
             /\ pc' = WordOf(word_to_i64(pc) + Decoded.inst.imm)
       /\ DecodesTo({RET}) =>
             /\ status' = "running"
             /\ pc' = gpr[LINK_REG]
             /\ gpr' = gpr
       /\ (status' = "ok" /\ program_bytes = BytesS6) =>
             (gpr'[4] = WordOf(55) /\ gpr'[LINK_REG] = WordOf(3))]_vars

\* the instruction executed last was a successful STW to the address ea
JustStoredAt(ea) ==
    /\ steps > 0
    /\ instruction.opcode = STW
    /\ word_to_i64(gpr[instruction.rs1]) + instruction.imm = ea

\* C16: a successful STW of the word v in Rs2 to the in-range address EA
\* leaves trytes EA, EA+1, EA+2 holding trits [0,9), [9,18), [18,27) of v and
\* every other tryte as it was; no other instruction changes memory; an LDW
\* with rd # 0 from an in-range EA leaves Rd holding the three trytes at EA,
\* so that an LDW right after an STW to the same EA leaves Rd = v (scenario
\* S4 stops with R3 = 777 and trytes 100..102 holding the word 777).
C16_StoreLoadRoundTrip ==
    [][\A x \in {Executing} :
       \A ea \in {IF x.inst.opcode \in {LDW, STW}
                  THEN word_to_i64(gpr[x.inst.rs1]) + x.inst.imm ELSE 0} :
       /\ (x.ok /\ x.inst.opcode = STW /\ ea >= 0 /\ ea + 2 < MEMORY_TRYTES) =>
             /\ status' = "running"
             /\ gpr' = gpr
             /\ \A a \in DOMAIN memory \cup DOMAIN memory' \cup {ea, ea + 1, ea + 2} :
                   Mem(memory', a) =
                       IF a = ea THEN SubSeq(gpr[x.inst.rs2], 1, 9)
                       ELSE IF a = ea + 1 THEN SubSeq(gpr[x.inst.rs2], 10, 18)
                       ELSE IF a = ea + 2 THEN SubSeq(gpr[x.inst.rs2], 19, 27)
                       ELSE Mem(memory, a)
       /\ (x.ok /\ x.inst.opcode # STW) =>
             \A a \in DOMAIN memory \cup DOMAIN memory' : Mem(memory', a) = Mem(memory, a)
       /\ (/\ x.ok /\ x.inst.opcode = LDW /\ x.inst.rd # 0
           /\ ea >= 0 /\ ea + 2 < MEMORY_TRYTES) =>
             /\ status' = "running"
             /\ gpr' = WithReg(x.inst.rd,
                               Mem(memory, ea) \o Mem(memory, ea + 1) \o Mem(memory, ea + 2))
             /\ JustStoredAt(ea) => gpr'[x.inst.rd] = gpr[instruction.rs2]
       /\ (status' = "ok" /\ program_bytes = BytesS4) =>
             /\ gpr'[3] = WordOf(777)
             /\ Mem(memory', 100) \o Mem(memory', 101) \o Mem(memory', 102) = WordOf(777)
      ]_vars

\* scenario S4 has loaded into R3 the word 777 it stored at tryte 100
C16_Witness ==
    /\ program_bytes = BytesS4
    /\ steps = 4
    /\ status = "running"
    /\ instruction.opcode = LDW
    /\ gpr[3] = WordOf(777)
    /\ Mem(memory, 100) = SubSeq(WordOf(777), 1, 9)

\* C17: the step that executes BRZ leaves PC = PC + imm when all 27 trits of
\* Rs1 are Z and PC = PC + 3 otherwise, changes no register and no memory,
\* and the run continues; scenario S5 stops with R2 = 0 and R3 = 7.
C17_BranchIfZero ==
    [][/\ DecodesTo({BRZ}) =>
             /\ status' = "running"
             /\ pc' = WordOf(word_to_i64(pc)
                             + (IF \A i \in 1..27 : gpr[Decoded.inst.rs1][i] = Z
                                THEN Decoded.inst.imm ELSE 3))
             /\ gpr' = gpr
             /\ memory' = memory
       /\ (status' = "ok" /\ program_bytes = BytesS5) =>
             (gpr'[2] = ZWord /\ gpr'[3] = WordOf(7))]_vars

\* the word of value -word_to_i64(w)
Negated(w) == [i \in 1..27 |-> 0 - w[i]]

\* C18: the step that executes SUB with rd # 0 leaves
\* Rd = add_words(Rs1, neg_word(Rs2)), the word of value Rs1 - Rs2 wrapped into
\* the balanced 27-trit range, negative results included, advances the PC by
\* 3 and continues; ADDI R1,R0,7; ADDI R2,R0,20; SUB R3,R1,R2; HALT stops with
\* R3 reading -13.
C18_Subtract ==
    [][\A x \in {Executing} :
       /\ (x.ok /\ x.inst.opcode = SUB /\ x.inst.rd # 0) =>
             /\ status' = "running"
             /\ gpr' = WithReg(x.inst.rd,
                               add_words(gpr[x.inst.rs1], neg_word(gpr[x.inst.rs2])))
             /\ gpr'[x.inst.rd] = BalancedSum(gpr[x.inst.rs1], Negated(gpr[x.inst.rs2]))
             /\ word_to_i64(pc') = word_to_i64(pc) + 3
             /\ memory' = memory
       /\ (status' = "ok" /\ program_bytes = BytesS2) =>
             word_to_i64(gpr'[3]) = -13]_vars

\* scenario S2 has subtracted 20 from 7
C18_Witness ==
    /\ program_bytes = BytesS2
    /\ steps = 3
    /\ instruction.opcode = SUB
    /\ instruction.rd = 3
    /\ word_to_i64(gpr[3]) = -13

\* C19: encode_instruction of an instruction whose imm lies outside
\* [-265720, 265720] returns a word (no error) whose imm field, trits 0..11,
\* holds imm reduced modulo 3^12 into the balanced range, and whose rs2, rs1,
\* rd and opcode fields are those of the same instruction with imm = 0.
C19_ImmOverflowTruncates ==
    (/\ call.fn = "encode_instruction"
     /\ ret.stage = "encoded"
     /\ call.inst.imm \notin (-265720)..265720) =>
        /\ ~ret.panic
        /\ SubSeq(ret.word, 1, 12)
               = Bal(((call.inst.imm + 265720) % Pow3(12)) - 265720, 12)
        /\ SubSeq(ret.word, 13, 27)
               = SubSeq(encode_instruction([call.inst EXCEPT !.imm = 0]).word, 13, 27)

---------------------------------------------------------------------------
(* Claims about termination (SpecRun) *)

\* C20: for every program, run eventually ends: the load fails, or after a
\* successful load the loop stops at a HALT or with a fault; no execution
\* stays in the loop forever.
C20_RunEnds == <>(status \notin {"fresh", "running"})

---------------------------------------------------------------------------
(* Claims about the register dump (Spec) *)

\* run has ended at a HALT, which printed the registers and changed nothing
HaltedAtHalt == status = "ok" /\ instruction.opcode = HALT

\* the dump that the HALT printed
RegisterDump == print_register_state(Self)

\* C21: the register dump printed on HALT has 27 register lines, for R00
\* to R26 in order, each with exactly 27 trit glyphs, MSB first (trit 26
\* first, trit 0 last), followed by the register's signed integer value.
C21_DumpMsbFirst ==
    HaltedAtHalt =>
        /\ Len(RegisterDump.lines) = 27
        /\ \A k \in 1..27 :
              /\ RegisterDump.lines[k].i = k - 1
              /\ Len(RegisterDump.lines[k].val_trits) = 27
              /\ \A j \in 1..27 :
                    RegisterDump.lines[k].val_trits[j]
                        = (IF gpr[k - 1][28 - j] = -1 THEN "-"
                           ELSE IF gpr[k - 1][28 - j] = 0 THEN "0" ELSE "+")
              /\ RegisterDump.lines[k].val_i64 = word_to_i64(gpr[k - 1])

---------------------------------------------------------------------------
(* Claims about faults and frames (Spec) *)

\* the Errs that run returns
ReturnedFaults == {"PcOutOfRange", "InvalidRegister", "UnknownOpcode", "AddressOutOfRange"}

\* C22: the iteration of run that returns a fault from fetch, decode, LDW or
\* STW leaves the PC, all 27 registers and all of memory as they were before
\* the faulting instruction was fetched.
C22_FaultChangesNothing ==
    [][(status = "running" /\ status' \in ReturnedFaults) =>
          /\ pc' = pc
          /\ gpr' = gpr
          /\ \A a \in DOMAIN memory \cup DOMAIN memory' : Mem(memory', a) = Mem(memory, a)
      ]_vars

\* an LDW with rd # 0 has faulted on its address, after an earlier
\* instruction set the base register
C22_Witness ==
    /\ status = "AddressOutOfRange"
    /\ steps = 2
    /\ gpr[1] # ZWord
    /\ Decoded.inst.opcode = LDW
    /\ Decoded.inst.rd # 0

\* C23: every decoded instruction names only registers 0..13; every step
\* leaves R14..R25 all-Z and R26 holding a non-negative value, and a step
\* that changes R26 executes a CALL.
C23_HighRegisters ==
    [][\A x \in {Executing} :
       /\ x.ok => (x.inst.rd \in 0..13 /\ x.inst.rs1 \in 0..13 /\ x.inst.rs2 \in 0..13)
       /\ \A r \in 14..25 : gpr'[r] = ZWord
       /\ word_to_i64(gpr'[LINK_REG]) >= 0
       /\ gpr'[LINK_REG] # gpr[LINK_REG] => (x.ok /\ x.inst.opcode = CALL)
      ]_vars

\* R13 has been written, and then a CALL has written a return address to R26
C23_Witness ==
    /\ steps > 1
    /\ gpr[13] # ZWord
    /\ instruction.opcode = CALL
    /\ word_to_i64(gpr[LINK_REG]) > 0
    /\ \A r \in 14..25 : gpr[r] = ZWord

\* every tryte of memory is as it was
MemoryUnchanged ==
    \A a \in DOMAIN memory \cup DOMAIN memory' : Mem(memory', a) = Mem(memory, a)

\* every register other than r is as it was
OnlyRegChanges(r) == \A q \in 0..26 : q # r => gpr'[q] = gpr[q]

\* C24: the step that executes an instruction changes, besides the PC, at
\* most the instruction's own target: ADD, ADDI, SUB, SUBI and LDW only
\* register rd, CALL only R26, STW only trytes EA, EA+1, EA+2, and NOP, JMP,
\* RET, BRZ and HALT no register and no memory.
C24_FrameEffects ==
    [][\A x \in {Executing} :
       /\ (x.ok /\ x.inst.opcode \in {ADD, ADDI, SUB, SUBI, LDW}) =>
             (OnlyRegChanges(x.inst.rd) /\ MemoryUnchanged)
       /\ (x.ok /\ x.inst.opcode = CALL) =>
             (OnlyRegChanges(LINK_REG) /\ MemoryUnchanged)
       /\ (x.ok /\ x.inst.opcode = STW) =>
             /\ gpr' = gpr
             /\ \A ea \in {word_to_i64(gpr[x.inst.rs1]) + x.inst.imm} :
                   \A a \in (DOMAIN memory \cup DOMAIN memory') \ {ea, ea + 1, ea + 2} :
                       Mem(memory', a) = Mem(memory, a)
       /\ (x.ok /\ x.inst.opcode \in {NOP, JMP, RET, BRZ, HALT}) =>
             (gpr' = gpr /\ MemoryUnchanged)
      ]_vars

\* an ADD has written R2 while R1 held a value, and the PC has advanced
C24_Witness ==
    /\ steps = 2
    /\ status = "running"
    /\ instruction.opcode = ADD
    /\ instruction.rd = 2
    /\ gpr[1] # ZWord
    /\ gpr[2] # ZWord
    /\ pc = WordOf(6)

====
